---- MODULE Spec2Model ----
(***************************************************************************)
(* Model of the SCCP subsystem (SSN) state manager of go-sccp:             *)
(* SSNEntry / SSNStateManager (sccp.go) and the SCMG handlers and the SST  *)
(* retransmission loop (the SCMG source file).                             *)
(*                                                                         *)
(* Goroutines are threads that take one step at a time.  A critical        *)
(* section that takes one lock, touches memory and releases the lock with  *)
(* no other lock operation inside (GetEntry, AddEntry, IsAllowed,          *)
(* IsProhibited, MarkAllowed, MarkProhibited, startSST, stopSST) is one    *)
(* step, enabled when a sync.RWMutex would grant the lock.  performSST     *)
(* takes the entry's write lock and then calls IsAllowed, which asks for   *)
(* the read lock of the same mutex: these are two steps and the lock is    *)
(* held in between.  OnStateChange and OnBroadcast are installed.          *)
(*                                                                         *)
(* The SCMG codec, the UDT codec (udt.go) and ParseMessage (sccp.go) are   *)
(* pure functions of octet sequences; CodecSpec applies them to inputs     *)
(* drawn from finite sets.  A Go byte slice b is a sequence whose element  *)
(* i + 1 is b[i]; a slice expression out of range is a panic.              *)
(***************************************************************************)
EXTENDS Integers, Sequences, FiniteSets, TLC

(* ---------------------------- bounds ----------------------------------- *)
NTasks == 2
MaxCalls == 3

PCs == {10}
SSNs == {7, 8}

(* ---------------------- constants of the program ----------------------- *)
SSNStateProhibited == 0
SSNStateAllowed == 1

ReasonUserInitiated == 1
ReasonNetworkInitiated == 2

BroadcastSSA == 1
BroadcastSSP == 2

SCMGTypeSSA == 1
SCMGTypeSSP == 2
SCMGTypeSST == 3
SCMGTypeSSC == 6

MsgTypeUDT == 9
MsgTypeXUDT == 17

\* NewSSNStateManager: the configuration, in seconds
DefaultTestInterval == 30
MaxTestInterval == 300
MaxTestRetries == 5

VARIABLES
    entries,   \* sm.entries: key -> reference to an SSNEntry (0 is nil)
    heap,      \* the SSNEntry objects ever allocated, by reference
    timers,    \* the time.Timer objects ever created by time.AfterFunc
    tasks,     \* the goroutines that call the manager
    now,       \* the clock: the last value time.Now() returned
    sstSent,   \* per SSNEntry object, the SST messages built by sendSST
    ncalls,    \* calls made so far
    snap,      \* the manager as it was when the running call was made
    codec      \* the codec call under way: its input, its position, its results

vars == <<entries, heap, timers, tasks, now, sstSent, ncalls, snap, codec>>

Tasks == 1..NTasks
Keys == PCs \X SSNs
NoSnap == [none |-> TRUE]

Min(a, b) == IF a < b THEN a ELSE b

(* ------------------------------ SCMG ----------------------------------- *)
NewSCMG(typ, assn, apc, smi, scl) ==
    [Type |-> typ, AffectedSSN |-> assn, AffectedPC |-> apc,
     SubsystemMultiplicityIndicator |-> smi, SCCPCongestionLevel |-> scl]

SCMGMarshalLen(s) == IF s.Type = SCMGTypeSSC THEN 6 ELSE 5

\* the octets MarshalTo writes into a buffer of MarshalLen zero octets
SCMGMarshalBinary(s) ==
    LET head == << s.Type, s.AffectedSSN, s.AffectedPC % 256,
                   (s.AffectedPC \div 256) % 256,
                   s.SubsystemMultiplicityIndicator >>
    IN IF s.Type = SCMGTypeSSC THEN Append(head, s.SCCPCongestionLevel)
       ELSE head

\* the zero value &SCMG{} that ParseSCMG decodes into
ZeroSCMG == NewSCMG(0, 0, 0, 0, 0)

\* mutant: the point code is read most significant octet first
SCMGUnmarshalBinary_BigEndian(b) ==
    LET l == Len(b)
        s == [ZeroSCMG EXCEPT !.Type = b[1], !.AffectedSSN = b[2],
                              !.AffectedPC = b[3] * 256 + b[4],
                              !.SubsystemMultiplicityIndicator = b[5]]
    IN IF l < 5 THEN [err |-> "ErrUnexpectedEOF", s |-> ZeroSCMG]
       ELSE IF b[1] # SCMGTypeSSC THEN [err |-> "nil", s |-> s]
       ELSE IF l < 6 THEN [err |-> "ErrUnexpectedEOF", s |-> s]
       ELSE [err |-> "nil", s |-> [s EXCEPT !.SCCPCongestionLevel = b[6]]]

\* SCMG.UnmarshalBinary on the receiver &SCMG{}: the error returned and the
\* receiver afterwards; the four header fields are assigned before the
\* length of an SSC is tested, so a 5-octet SSC leaves them written (the
\* octet b[i] of the code is b[i + 1] here)
SCMGUnmarshalBinary(b) ==
    LET l == Len(b)
        s == [ZeroSCMG EXCEPT !.Type = b[1], !.AffectedSSN = b[2],
                              !.AffectedPC = b[3] + 256 * b[4],
                              !.SubsystemMultiplicityIndicator = b[5]]
    IN IF l < 5 THEN [err |-> "ErrUnexpectedEOF", s |-> ZeroSCMG]
       ELSE IF b[1] # SCMGTypeSSC THEN [err |-> "nil", s |-> s]
       ELSE IF l < 6 THEN [err |-> "ErrUnexpectedEOF", s |-> s]
       ELSE [err |-> "nil", s |-> [s EXCEPT !.SCCPCongestionLevel = b[6]]]

\* the nil *SCMG that ParseSCMG returns with an error
NilSCMG == [kind |-> "nil"]

\* ParseSCMG: decodes into &SCMG{} and returns it, or nil and the error
ParseSCMG(b) ==
    LET r == SCMGUnmarshalBinary(b)
    IN IF r.err # "nil" THEN [err |-> r.err, s |-> NilSCMG] ELSE r

(* --------------------------- byte slices ------------------------------- *)
\* make([]byte, n)
Zeros(n) == [i \in 1..n |-> 0]

\* b[lo:hi]
Slice(b, lo, hi) == SubSeq(b, lo + 1, hi)

\* b[lo:hi] of a slice of length (and capacity) l does not panic
SliceOk(l, lo, hi) == 0 <= lo /\ lo <= hi /\ hi <= l

\* b after copy(b[at:], src)
Put(b, at, src) ==
    [i \in 1..Len(b) |->
        IF i > at /\ i <= at + Len(src) THEN src[i - at] ELSE b[i]]

\* conversion to uint8, and uint8 arithmetic
Uint8(n) == n % 256

(* ------------- parameter sub-codecs (package params) ------------------- *)
\* A PartyAddress and a Data are modelled by the octets that follow their
\* length octet; a ProtocolClass by its class and its return-on-error bit.
NewProtocolClass(pcls, retOnErr) == [class |-> pcls % 16, roe |-> retOnErr]

\* the one octet ProtocolClass.Write puts on the wire
ProtocolClassOctet(p) == p.class + (IF p.roe THEN 128 ELSE 0)

\* the ProtocolClass of a UDT that was never given one (a nil pointer)
NilProtocolClass == [nil |-> TRUE]

\* PartyAddress.MarshalLen and Data.MarshalLen count the length octet
ParamMarshalLen(v) == 1 + Len(v)

\* PartyAddress.Write(b) and Data.Write(b): the length octet and the value
ParamWrite(b, v) ==
    IF Len(b) < ParamMarshalLen(v) THEN [err |-> "ErrUnexpectedEOF", b |-> b]
    ELSE [err |-> "nil", b |-> Put(b, 0, <<Len(v)>> \o v)]

\* ParseCalledPartyAddress(b), ParseCallingPartyAddress(b), Data.Read(b)
ParamRead(b) ==
    IF Len(b) < 1 \/ Len(b) < 1 + b[1] THEN [err |-> "ErrUnexpectedEOF", v |-> <<>>]
    ELSE [err |-> "nil", v |-> SubSeq(b, 2, 1 + b[1])]

(* ------------------------------- UDT ----------------------------------- *)
\* mutant: each pointer is advanced by the whole marshal length
NewUDT_WholeMarshalLen(pcls, retOnErr, cdpa, cgpa, data) ==
    LET ptr1 == 3
        ptr2 == Uint8(ptr1 + Uint8(ParamMarshalLen(cdpa)))
        ptr3 == Uint8(ptr2 + Uint8(ParamMarshalLen(cgpa)))
    IN [Type |-> MsgTypeUDT,
        ProtocolClass |-> NewProtocolClass(pcls, retOnErr),
        SLS |-> 0,
        CalledPartyAddress |-> cdpa,
        CallingPartyAddress |-> cgpa,
        Data |-> data,
        ptr1 |-> ptr1, ptr2 |-> ptr2, ptr3 |-> ptr3]

NewUDT(pcls, retOnErr, cdpa, cgpa, data) ==
    LET ptr1 == 3
        ptr2 == Uint8(ptr1 + Uint8(ParamMarshalLen(cdpa)) - 1)
        ptr3 == Uint8(ptr2 + Uint8(ParamMarshalLen(cgpa)) - 1)
    IN [Type |-> MsgTypeUDT,
        ProtocolClass |-> NewProtocolClass(pcls, retOnErr),
        SLS |-> 0,
        CalledPartyAddress |-> cdpa,
        CallingPartyAddress |-> cgpa,
        Data |-> data,
        ptr1 |-> ptr1, ptr2 |-> ptr2, ptr3 |-> ptr3]

\* UDT.MarshalLen of a UDT whose addresses and Data are not nil: the
\* addresses are counted as 11 octets each whatever their length
UDTMarshalLen(u) ==
    1 + 1 + 1 + 3 + (1 + 11) + (1 + 11) + (1 + ParamMarshalLen(u.Data))

\* what a call of MarshalBinary or MarshalTo ends with: a return (err is
\* "nil" or the error) or a run-time panic
Returns(err, b) == [panic |-> FALSE, err |-> err, b |-> b]
Panics == [panic |-> TRUE, err |-> "slice bounds out of range", b |-> <<>>]

\* UDT.MarshalTo(b): how the call ends and the octets of b after it
UDTMarshalTo(u, b) ==
    LET l == Len(b)
        b1 == Put(Put(b, 0, <<u.Type>>), 1, <<ProtocolClassOctet(u.ProtocolClass)>>)
        n == 1 + 1
        b2 == Put(b1, n, <<u.ptr1, u.ptr2, u.ptr3>>)
        n2 == n + 3
        cdpaEnd == Uint8(u.ptr2 + 3)
        cgpaEnd == Uint8(u.ptr3 + 4)
        w1 == ParamWrite(Slice(b2, n2, cdpaEnd), u.CalledPartyAddress)
        b3 == Put(b2, n2, w1.b)
        w2 == ParamWrite(Slice(b3, cdpaEnd, cgpaEnd), u.CallingPartyAddress)
        b4 == Put(b3, cdpaEnd, w2.b)
        w3 == ParamWrite(Slice(b4, cgpaEnd, l), u.Data)
        b5 == Put(b4, cgpaEnd, w3.b)
    IN IF l < 6 THEN Returns("ErrUnexpectedEOF", b)
       ELSE IF ~SliceOk(l, n2, cdpaEnd) THEN Panics
       ELSE IF w1.err # "nil" THEN Returns(w1.err, b3)
       ELSE IF ~SliceOk(l, cdpaEnd, cgpaEnd) THEN Panics
       ELSE IF w2.err # "nil" THEN Returns(w2.err, b4)
       ELSE IF ~SliceOk(l, cgpaEnd, l) THEN Panics
       ELSE IF w3.err # "nil" THEN Returns(w3.err, b5)
       ELSE Returns("nil", b5)

\* UDT.MarshalBinary: nil and the error, or the buffer and nil
UDTMarshalBinary(u) ==
    LET r == UDTMarshalTo(u, Zeros(UDTMarshalLen(u)))
    IN IF r.panic THEN r
       ELSE IF r.err # "nil" THEN Returns(r.err, <<>>)
       ELSE r

\* the UDT that UnmarshalBinary fills in, before it has set a field
ZeroUDT ==
    [Type |-> 0, ProtocolClass |-> NilProtocolClass, SLS |-> 0,
     CalledPartyAddress |-> <<>>, CallingPartyAddress |-> <<>>, Data |-> <<>>,
     ptr1 |-> 0, ptr2 |-> 0, ptr3 |-> 0]

\* UDT.UnmarshalBinary(b) on a zero UDT: the error and the UDT (the octet
\* b[i] of the code is b[i + 1] here)
UDTUnmarshalBinary(b) ==
    LET l == Len(b)
        offset == 1
        u0 == [ZeroUDT EXCEPT !.Type = b[1], !.ptr1 = b[offset + 1],
                              !.ptr2 = b[offset + 2], !.ptr3 = b[offset + 3]]
        offsetPtr1 == offset + u0.ptr1
        cdpaLen == b[offsetPtr1 + 1]
        cdpaEnd == offsetPtr1 + cdpaLen + 1
        offsetPtr2 == cdpaEnd
        cgpaLen == b[offsetPtr2 + 1]
        cgpaEnd == offsetPtr2 + cgpaLen + 1
        offsetPtr3 == cgpaEnd
        dataLen == b[offsetPtr3 + 1]
        dataEnd == offsetPtr3 + dataLen + 1
        cdpa == ParamRead(Slice(b, offsetPtr1, cdpaEnd))
        cgpa == ParamRead(Slice(b, offsetPtr2, cgpaEnd))
        data == ParamRead(Slice(b, offsetPtr3, dataEnd))
        u1 == [u0 EXCEPT !.CalledPartyAddress = cdpa.v]
        u2 == [u1 EXCEPT !.CallingPartyAddress = cgpa.v]
        u3 == [u2 EXCEPT !.Data = data.v]
    IN IF l <= 4 THEN [err |-> "ErrUnexpectedEOF", u |-> ZeroUDT]
       ELSE IF l < offsetPtr1 + 1 THEN [err |-> "ErrUnexpectedEOF", u |-> u0]
       ELSE IF l < offsetPtr2 + 1 THEN [err |-> "ErrUnexpectedEOF", u |-> u0]
       ELSE IF l < offsetPtr3 + 1 THEN [err |-> "ErrUnexpectedEOF", u |-> u0]
       ELSE IF l < cdpaEnd \/ l < cgpaEnd \/ l < dataEnd
            THEN [err |-> "ErrUnexpectedEOF", u |-> u0]
       ELSE IF cdpa.err # "nil" THEN [err |-> cdpa.err, u |-> u0]
       ELSE IF cgpa.err # "nil" THEN [err |-> cgpa.err, u |-> u1]
       ELSE IF data.err # "nil" THEN [err |-> data.err, u |-> u2]
       ELSE [err |-> "nil", u |-> u3]

(* ------------------------- message dispatcher -------------------------- *)
\* a Message is a UDT or an XUDT; no Message is nil
NilMessage == [kind |-> "nil"]

\* Message.MessageType(): UDT.MessageType returns MsgTypeUDT whatever the
\* Type field holds, XUDT.MessageType returns MsgTypeXUDT
MessageType(m) == IF m.kind = "UDT" THEN MsgTypeUDT ELSE MsgTypeXUDT

\* the errors XUDT.UnmarshalBinary may return
XUDTErrors == {"nil", "ErrUnexpectedEOF"}

\* mutant: a first octet the switch does not list is decoded as a UDT
ParseMessage_DefaultAsUDT(b, xerr) ==
    IF Len(b) < 1 THEN [err |-> "ErrUnexpectedEOF", typ |-> 0, m |-> NilMessage]
    ELSE IF b[1] = MsgTypeXUDT
         THEN IF xerr # "nil" THEN [err |-> xerr, typ |-> 0, m |-> NilMessage]
              ELSE [err |-> "nil", typ |-> 0, m |-> [kind |-> "XUDT"]]
    ELSE LET r == UDTUnmarshalBinary(b)
         IN IF r.err # "nil" THEN [err |-> r.err, typ |-> 0, m |-> NilMessage]
            ELSE [err |-> "nil", typ |-> 0, m |-> [kind |-> "UDT", u |-> r.u]]

\* ParseMessage(b), where XUDT.UnmarshalBinary(b) returns xerr: the error
\* (typ is the argument of UnsupportedTypeError) and the Message.  A UDT is
\* unmarshalled in its case of the switch and once more after the switch.
ParseMessage(b, xerr) ==
    IF Len(b) < 1 THEN [err |-> "ErrUnexpectedEOF", typ |-> 0, m |-> NilMessage]
    ELSE IF b[1] = MsgTypeUDT
         THEN LET r == UDTUnmarshalBinary(b)
                  again == UDTUnmarshalBinary(b)
              IN IF r.err # "nil" THEN [err |-> r.err, typ |-> 0, m |-> NilMessage]
                 ELSE IF again.err # "nil"
                      THEN [err |-> again.err, typ |-> 0, m |-> NilMessage]
                 ELSE [err |-> "nil", typ |-> 0, m |-> [kind |-> "UDT", u |-> again.u]]
    ELSE IF b[1] = MsgTypeXUDT
         THEN IF xerr # "nil" THEN [err |-> xerr, typ |-> 0, m |-> NilMessage]
              ELSE [err |-> "nil", typ |-> 0, m |-> [kind |-> "XUDT"]]
    ELSE [err |-> "UnsupportedTypeError", typ |-> b[1], m |-> NilMessage]

(* ---------------------------- SSNEntry --------------------------------- *)
getKey(pc, ssn) == <<pc, ssn>>

\* the entry AddEntry builds; mutex is the writer of the RWMutex (0: none)
NewEntry(pc, ssn, isLocal, time) ==
    [SSN |-> ssn, PointCode |-> pc, State |-> SSNStateProhibited,
     IsLocal |-> isLocal, LastStateChange |-> time, TestTimer |-> 0,
     TestInterval |-> DefaultTestInterval, TestRetries |-> 0,
     MaxTestRetries |-> MaxTestRetries, mutex |-> 0, readers |-> {}]

\* sync.RWMutex: RLock and Lock wait while a writer holds the mutex; no
\* reader keeps the mutex across a step, so a free writer slot grants both
CanRLock(e) == heap[e].mutex = 0
CanLock(e) == heap[e].mutex = 0 /\ heap[e].readers = {}

\* s.mutex.Lock() by thread th, once the mutex grants it
Lock(rec, th) == [rec EXCEPT !.mutex = th]

\* mutant: the deferred Unlock does not run
Unlock_KeepsLock(rec) == rec

\* defer s.mutex.Unlock()
Unlock(rec) == [rec EXCEPT !.mutex = 0]

\* s.mutex.RLock() by thread th, and defer s.mutex.RUnlock()
RLock(rec, th) == [rec EXCEPT !.readers = @ \cup {th}]
RUnlock(rec, th) == [rec EXCEPT !.readers = @ \ {th}]

\* mutant: the comparison inverted
IsAllowed_Inverted(rec) == rec.State # SSNStateAllowed

IsAllowed(rec) == rec.State = SSNStateAllowed
IsProhibited(rec) == rec.State = SSNStateProhibited

\* mutant: the timestamp is written, the state is not
MarkAllowed_KeepsState(rec, time) == [rec EXCEPT !.LastStateChange = time]

MarkAllowed(rec, time) ==
    [rec EXCEPT !.State = SSNStateAllowed, !.LastStateChange = time]
MarkProhibited(rec, time) ==
    [rec EXCEPT !.State = SSNStateProhibited, !.LastStateChange = time]

(* ----------------------------- timers ---------------------------------- *)
\* a timer is pending until it fires or is stopped; when it fires its
\* callback runs performSST on a goroutine of its own
TimerThread(tm) == NTasks + tm

\* time.Timer.Stop: prevents the firing of a timer that has not fired
TimerStop(tms, h) ==
    IF h # 0 /\ tms[h].st = "pending"
    THEN [tms EXCEPT ![h].st = "stopped"] ELSE tms

\* mutant: the timer is created and its handle is not stored in the entry
scheduleSST_DropsHandle(tms, rec, e) ==
    [tms |-> Append(tms, [entry |-> e, interval |-> rec.TestInterval,
                          st |-> "pending"]),
     rec |-> rec]

\* scheduleSST: entry.TestTimer = time.AfterFunc(entry.TestInterval, ...);
\* e is the reference of the entry rec
scheduleSST(tms, rec, e) ==
    [tms |-> Append(tms, [entry |-> e, interval |-> rec.TestInterval,
                          st |-> "pending"]),
     rec |-> [rec EXCEPT !.TestTimer = Len(tms) + 1]]

\* startSST on a remote entry: the reset of the retry count and interval
startSSTEntry(rec) ==
    [rec EXCEPT !.TestRetries = 0, !.TestInterval = DefaultTestInterval]

\* mutant: the timer is stopped and the handle is kept
stopSSTEntry_KeepsHandle(rec) == [rec EXCEPT !.TestRetries = 0]

\* stopSST, under the entry lock
stopSSTEntry(rec) == [rec EXCEPT !.TestTimer = 0, !.TestRetries = 0]

(* ------------------------------ state ---------------------------------- *)
IdleTask ==
    [op |-> "idle", fn |-> "idle", pc |-> "idle", key |-> <<0, 0>>, isLocal |-> FALSE,
     typ |-> 0, via |-> "idle", scmg |-> NewSCMG(0, 0, 0, 0, 0), entry |-> 0, ret |-> "none", out |-> <<>>, cbs |-> <<>>]

\* no codec call is under way
NoCodec == [op |-> "none", pc |-> "none"]

\* a fresh manager (NewSSNStateManager), no call made and no timer created
NewManager ==
    /\ entries = [k \in Keys |-> 0]
    /\ heap = <<>>
    /\ timers = <<>>
    /\ tasks = [t \in Tasks |-> IdleTask]
    /\ now = 0
    /\ sstSent = <<>>
    /\ ncalls = 0
    /\ snap = NoSnap

Init ==
    /\ NewManager
    /\ codec = NoCodec


\* time.Now(): every reading of the clock is later than the one before
TimeNow == now + 1

(* ------------------------- steps of a call ----------------------------- *)
AllIdle == \A t \in Tasks : tasks[t].pc = "idle"

Upd(t, r) == tasks' = [tasks EXCEPT ![t] = r]

\* the call returns ret
Done(T, ret) == [T EXCEPT !.pc = "done", !.ret = ret]

\* the arguments OnStateChange / OnBroadcast are invoked with, and the
\* state the entry has while the callback runs
StateChangeCall(e, state, reason) ==
    [cb |-> "OnStateChange", entry |-> e, state |-> state,
     reason |-> reason, observed |-> heap[e].State]
BroadcastCall(typ, e) ==
    [cb |-> "OnBroadcast", entry |-> e, typ |-> typ,
     observed |-> heap[e].State]

\* entry := sm.GetEntry(pc, ssn), under the manager's read lock
GetEntry(t, ifNil, ifFound) ==
    LET T == tasks[t]
        ref == entries[getKey(T.key[1], T.key[2])]
    IN /\ Upd(t, IF ref = 0 THEN [ifNil EXCEPT !.entry = 0]
                 ELSE [ifFound EXCEPT !.entry = ref])
       /\ UNCHANGED <<entries, heap, timers, now, sstSent>>

\* entry = sm.AddEntry(pc, ssn, isLocal), under the manager's write lock:
\* a new object is stored under the key, whatever was stored there
AddEntry(t, isLocal, next) ==
    LET T == tasks[t]
        ref == Len(heap) + 1
    IN   /\ now' = TimeNow
         /\ heap' = Append(heap, NewEntry(T.key[1], T.key[2], isLocal, now'))
         /\ entries' = [entries EXCEPT ![getKey(T.key[1], T.key[2])] = ref]
         /\ sstSent' = Append(sstSent, 0)
         /\ Upd(t, [next EXCEPT !.entry = ref])
         /\ UNCHANGED timers

\* if entry.IsProhibited() / if entry.IsAllowed(), under the read lock
Check(t, wantState, ifTrue, ifFalse) ==
    LET T == tasks[t]
        e == T.entry
        holds == IF wantState = SSNStateAllowed THEN IsAllowed(heap[e])
                 ELSE IsProhibited(heap[e])
    IN /\ CanRLock(e)
       /\ heap' = [heap EXCEPT ![e] = RUnlock(RLock(@, t), t)]
       /\ Upd(t, IF holds THEN ifTrue ELSE ifFalse)
       /\ UNCHANGED <<entries, timers, now, sstSent>>

\* entry.MarkAllowed() / entry.MarkProhibited(), under the write lock
Mark(t, newState, next) ==
    LET T == tasks[t]
        e == T.entry
    IN   /\ CanLock(e)
         /\ now' = TimeNow
         /\ heap' = [heap EXCEPT ![e] =
                IF newState = SSNStateAllowed
                THEN Unlock(MarkAllowed(Lock(@, t), now'))
                ELSE Unlock(MarkProhibited(Lock(@, t), now'))]
         /\ Upd(t, next)
         /\ UNCHANGED <<entries, timers, sstSent>>

\* mutant: a local entry is tested like a remote one
startSST_TestsLocal(t, next) ==
    LET T == tasks[t]
        e == T.entry
        r == scheduleSST(TimerStop(timers, heap[e].TestTimer),
                         startSSTEntry(Lock(heap[e], t)), e)
    IN /\ CanLock(e)
       /\ timers' = r.tms
       /\ heap' = [heap EXCEPT ![e] = Unlock(r.rec)]
       /\ Upd(t, next)
       /\ UNCHANGED <<entries, now, sstSent>>

\* sm.startSST(entry)
startSST(t, next) ==
    LET T == tasks[t]
        e == T.entry
    IN IF heap[e].IsLocal
       THEN /\ Upd(t, next)
            /\ UNCHANGED <<entries, heap, timers, now, sstSent>>
       ELSE LET r == scheduleSST(TimerStop(timers, heap[e].TestTimer),
                                 startSSTEntry(Lock(heap[e], t)), e)
            IN /\ CanLock(e)
               /\ timers' = r.tms
               /\ heap' = [heap EXCEPT ![e] = Unlock(r.rec)]
               /\ Upd(t, next)
            /\ UNCHANGED <<entries, now, sstSent>>

\* sm.stopSST(entry)
stopSST(t, next) ==
    LET T == tasks[t]
        e == T.entry
    IN /\ CanLock(e)
       /\ timers' = TimerStop(timers, heap[e].TestTimer)
       /\ heap' = [heap EXCEPT ![e] = Unlock(stopSSTEntry(Lock(@, t)))]
       /\ Upd(t, next)
       /\ UNCHANGED <<entries, now, sstSent>>

\* sm.OnStateChange(entry, state, reason); the task is inside the callback
\* while it is at this step
OnStateChange(t, state, reason, next) ==
    LET T == tasks[t]
    IN /\ Upd(t, [next EXCEPT
                    !.cbs = Append(@, StateChangeCall(T.entry, state, reason))])
       /\ UNCHANGED <<entries, heap, timers, now, sstSent>>

\* sm.OnBroadcast(typ, entry)
OnBroadcast(t, typ, next) ==
    LET T == tasks[t]
    IN /\ Upd(t, [next EXCEPT !.cbs = Append(@, BroadcastCall(typ, T.entry))])
       /\ UNCHANGED <<entries, heap, timers, now, sstSent>>


(* ----------------------------- handlers -------------------------------- *)
At(t, label) == [tasks[t] EXCEPT !.pc = label]

\* mutant: the entry is not required to be local
UserLookup_NoLocalCheck(ref) == IF ref = 0 THEN "EntryNotFound" ELSE "ok"

\* HandleUserInService / HandleUserOutOfService: the error the lookup ends
\* the call with ("ok": the call goes on)
UserLookup(ref) ==
    IF ref = 0 THEN "EntryNotFound"
    ELSE IF ~heap[ref].IsLocal THEN "NotLocal"
    ELSE "ok"

HandleUserInService(t) ==
    LET T == tasks[t]
    IN /\ T.fn = "HandleUserInService"
       /\ CASE T.pc = "get" ->
                 LET err == UserLookup(entries[T.key])
                 IN GetEntry(t, Done(T, err),
                             IF err = "ok" THEN At(t, "check")
                             ELSE Done(T, err))
            [] T.pc = "check" ->
                 Check(t, SSNStateProhibited, At(t, "mark"), Done(T, "nil"))
            [] T.pc = "mark" -> Mark(t, SSNStateAllowed, At(t, "statechange"))
            [] T.pc = "statechange" ->
                 OnStateChange(t, SSNStateAllowed, ReasonUserInitiated,
                               At(t, "broadcast"))
            [] T.pc = "broadcast" ->
                 OnBroadcast(t, BroadcastSSA, Done(T, "nil"))
            [] OTHER -> FALSE
       /\ UNCHANGED <<ncalls, snap, codec>>

HandleUserOutOfService(t) ==
    LET T == tasks[t]
    IN /\ T.fn = "HandleUserOutOfService"
       /\ CASE T.pc = "get" ->
                 LET err == UserLookup(entries[T.key])
                 IN GetEntry(t, Done(T, err),
                             IF err = "ok" THEN At(t, "check")
                             ELSE Done(T, err))
            [] T.pc = "check" ->
                 Check(t, SSNStateAllowed, At(t, "mark"), Done(T, "nil"))
            [] T.pc = "mark" -> Mark(t, SSNStateProhibited, At(t, "stop"))
            [] T.pc = "stop" -> stopSST(t, At(t, "statechange"))
            [] T.pc = "statechange" ->
                 OnStateChange(t, SSNStateProhibited, ReasonUserInitiated,
                               At(t, "broadcast"))
            [] T.pc = "broadcast" ->
                 OnBroadcast(t, BroadcastSSP, Done(T, "nil"))
            [] OTHER -> FALSE
       /\ UNCHANGED <<ncalls, snap, codec>>

HandleSSA(t) ==
    LET T == tasks[t]
    IN /\ T.fn = "HandleSSA"
       /\ CASE T.pc = "get" -> GetEntry(t, At(t, "add"), At(t, "check"))
            [] T.pc = "add" -> AddEntry(t, FALSE, At(t, "check"))
            [] T.pc = "check" ->
                 Check(t, SSNStateProhibited, At(t, "mark"), Done(T, "nil"))
            [] T.pc = "mark" -> Mark(t, SSNStateAllowed, At(t, "stop"))
            [] T.pc = "stop" -> stopSST(t, At(t, "statechange"))
            [] T.pc = "statechange" ->
                 OnStateChange(t, SSNStateAllowed, ReasonNetworkInitiated,
                               Done(T, "nil"))
            [] OTHER -> FALSE
       /\ UNCHANGED <<ncalls, snap, codec>>

HandleSSP(t) ==
    LET T == tasks[t]
    IN /\ T.fn = "HandleSSP"
       /\ CASE T.pc = "get" -> GetEntry(t, At(t, "add"), At(t, "check"))
            [] T.pc = "add" -> AddEntry(t, FALSE, At(t, "check"))
            [] T.pc = "check" ->
                 Check(t, SSNStateAllowed, At(t, "mark"), Done(T, "nil"))
            [] T.pc = "mark" -> Mark(t, SSNStateProhibited, At(t, "start"))
            [] T.pc = "start" -> startSST(t, At(t, "statechange"))
            [] T.pc = "statechange" ->
                 OnStateChange(t, SSNStateProhibited, ReasonNetworkInitiated,
                               Done(T, "nil"))
            [] OTHER -> FALSE
       /\ UNCHANGED <<ncalls, snap, codec>>

\* mutant: the response does not depend on entry.IsLocal
SSTReadsState_Always(rec) == TRUE

\* HandleSST: whether the first / the second condition reads the state of
\* the entry (entry.IsLocal && ... short-circuits on a remote entry)
SSTReadsState(rec) == rec.IsLocal

HandleSST(t) ==
    LET T == tasks[t]
        e == T.entry
        ssa == NewSCMG(SCMGTypeSSA, T.key[2], T.key[1], 0, 0)
    IN /\ T.fn = "HandleSST"
       /\ CASE T.pc = "get" -> GetEntry(t, At(t, "add"), At(t, "allowed"))
            [] T.pc = "add" -> AddEntry(t, FALSE, At(t, "allowed"))
            [] T.pc = "allowed" ->
                 IF SSTReadsState(heap[e])
                 THEN Check(t, SSNStateAllowed,
                            [Done(T, "nil") EXCEPT
                               !.out = Append(@, SCMGMarshalBinary(ssa))],
                            At(t, "prohibited"))
                 ELSE /\ Upd(t, Done(T, "nil"))
                      /\ UNCHANGED <<entries, heap, timers, now, sstSent>>
            [] T.pc = "prohibited" ->
                 Check(t, SSNStateProhibited, Done(T, "nil"), Done(T, "nil"))
            [] OTHER -> FALSE
       /\ UNCHANGED <<ncalls, snap, codec>>

\* ProcessSCMGMessage: the handler the switch on scmg.Type selects; the
\* handler is called in return position, with AffectedPC and AffectedSSN
\* mutant: an SSP message is handed to HandleSSA
Dispatch_SSPAsSSA(typ) ==
    CASE typ = SCMGTypeSSA -> "HandleSSA"
      [] typ = SCMGTypeSSP -> "HandleSSA"
      [] typ = SCMGTypeSST -> "HandleSST"
      [] OTHER -> "none"

Dispatch(typ) ==
    CASE typ = SCMGTypeSSA -> "HandleSSA"
      [] typ = SCMGTypeSSP -> "HandleSSP"
      [] typ = SCMGTypeSST -> "HandleSST"
      [] OTHER -> "none"

ProcessSCMGMessage(t) ==
    LET T == tasks[t]
        fn == Dispatch(T.scmg.Type)
    IN /\ T.fn = "ProcessSCMGMessage"
       /\ T.pc = "switch"
       /\ Upd(t, IF fn = "none" THEN Done(T, "nil")
                 ELSE [T EXCEPT !.op = fn, !.fn = fn, !.typ = 0, !.pc = "get",
                                !.key = <<T.scmg.AffectedPC,
                                          T.scmg.AffectedSSN>>])
       /\ UNCHANGED <<entries, heap, timers, now, sstSent, ncalls, snap, codec>>

\* a direct call of sm.AddEntry(pc, ssn, isLocal)
AddEntryCall(t) ==
    LET T == tasks[t]
    IN /\ T.fn = "AddEntry"
       /\ T.pc = "add"
       /\ AddEntry(t, T.isLocal, Done(T, "entry"))
       /\ UNCHANGED <<ncalls, snap, codec>>

(* ------------------------- the SST timer ------------------------------- *)
\* the timer expires: its callback is started on a new goroutine
TimerFire(tm) ==
    /\ timers[tm].st = "pending"
    /\ timers' = [timers EXCEPT ![tm].st = "fired"]
    /\ UNCHANGED <<entries, heap, tasks, now, sstSent, ncalls, snap, codec>>

\* performSST after the state check: send, count, back off, reschedule
performSSTBody(rec, e, tms) ==
    LET retries == rec.TestRetries + 1
        interval == Min(rec.TestInterval * 2, MaxTestInterval)
    IN IF retries >= rec.MaxTestRetries
       THEN [rec |-> [rec EXCEPT !.TestRetries = retries, !.mutex = 0],
             tms |-> tms]
       ELSE LET r == scheduleSST(tms, [rec EXCEPT !.TestRetries = retries,
                                                  !.TestInterval = interval],
                                 e)
            IN [rec |-> [r.rec EXCEPT !.mutex = 0], tms |-> r.tms]

\* performSST(entry) on the callback's goroutine: entry.mutex.Lock(), then
\* entry.IsAllowed(), which takes entry.mutex.RLock(), then the rest
performSST(tm) ==
    LET e == timers[tm].entry
        self == TimerThread(tm)
        ret(tms) == [tms EXCEPT ![tm].st = "returned"]
    IN /\ timers[tm].st \in {"fired", "locked"}
       /\ IF timers[tm].st = "fired"
          THEN /\ CanLock(e)
               /\ heap' = [heap EXCEPT ![e].mutex = self]
               /\ timers' = [timers EXCEPT ![tm].st = "locked"]
               /\ UNCHANGED sstSent
          ELSE /\ CanRLock(e)
               /\ IF IsAllowed(heap[e])
                  THEN /\ heap' = [heap EXCEPT ![e].mutex = 0]
                       /\ timers' = ret(timers)
                       /\ UNCHANGED sstSent
                  ELSE LET r == performSSTBody(heap[e], e, timers)
                       IN /\ heap' = [heap EXCEPT ![e] = r.rec]
                          /\ timers' = ret(r.tms)
                          /\ sstSent' = [sstSent EXCEPT ![e] = @ + 1]
       /\ UNCHANGED <<entries, tasks, now, ncalls, snap, codec>>

(* ------------------------ calls and returns ---------------------------- *)
Ops == {"AddEntry", "HandleUserInService", "HandleUserOutOfService",
        "HandleSSA", "HandleSSP", "HandleSST", "ProcessSCMGMessage"}
SCMGTypes == 0..7

FirstPc(op) ==
    CASE op = "AddEntry" -> "add"
      [] op = "ProcessSCMGMessage" -> "switch"
      [] OTHER -> "get"

\* task t calls op with the arguments (pc, ssn), isLocal, or with the SCMG
\* message of type typ that affects (pc, ssn)
Invoke(t, op, k, isLocal, typ) ==
    /\ tasks[t].pc = "idle"
    /\ ncalls < MaxCalls
    /\ ncalls' = ncalls + 1
    /\ Upd(t, IF op = "ProcessSCMGMessage"
              THEN [IdleTask EXCEPT !.op = op, !.fn = op, !.via = op,
                                    !.pc = FirstPc(op), !.typ = typ,
                                    !.scmg = NewSCMG(typ, k[2], k[1], 0, 0)]
              ELSE [IdleTask EXCEPT !.op = op, !.fn = op, !.via = op,
                                    !.pc = FirstPc(op), !.key = k,
                                    !.isLocal = isLocal, !.typ = typ])
    /\ UNCHANGED <<entries, heap, timers, now, sstSent, codec>>

Arguments(op, isLocal, typ) ==
    /\ (op # "AddEntry" => isLocal = FALSE)
    /\ (op # "ProcessSCMGMessage" => typ = 0)

Call(t) ==
    \E op \in Ops, k \in Keys, isLocal \in BOOLEAN, typ \in SCMGTypes :
        /\ Arguments(op, isLocal, typ)
        /\ Invoke(t, op, k, isLocal, typ)
        /\ UNCHANGED snap

\* a call made while no other call is running
SeqCall(t) ==
    \E op \in Ops, k \in Keys, isLocal \in BOOLEAN, typ \in SCMGTypes :
        /\ Arguments(op, isLocal, typ)
        /\ AllIdle
        /\ Invoke(t, op, k, isLocal, typ)
        /\ snap' = [entries |-> entries, heap |-> heap, timers |-> timers]

Return(t) ==
    /\ tasks[t].pc = "done"
    /\ Upd(t, IdleTask)
    /\ snap' = NoSnap
    /\ UNCHANGED <<entries, heap, timers, now, sstSent, ncalls, codec>>

Step(t) ==
    \/ HandleUserInService(t)
    \/ HandleUserOutOfService(t)
    \/ HandleSSA(t)
    \/ HandleSSP(t)
    \/ HandleSST(t)
    \/ ProcessSCMGMessage(t)
    \/ AddEntryCall(t)
    \/ Return(t)

TimerIds == 1..Len(timers)

Next ==
    \/ \E t \in Tasks : Call(t)
    \/ \E t \in Tasks : Step(t)
    \/ \E tm \in TimerIds : TimerFire(tm)
    \/ \E tm \in TimerIds : performSST(tm)

Spec == Init /\ [][Next]_vars

\* calls run one at a time, and the timers act between calls
SeqNext ==
    \/ \E t \in Tasks : SeqCall(t)
    \/ \E t \in Tasks : Step(t)
    \/ AllIdle /\ \E tm \in TimerIds : TimerFire(tm)
    \/ AllIdle /\ \E tm \in TimerIds : performSST(tm)

SeqSpec == Init /\ [][SeqNext]_vars


(* ====================== properties of the handlers ===================== *)
\* under SeqSpec: task t has returned from op, and nothing else has acted
\* since the call was made
Returned(t, op) ==
    /\ snap # NoSnap
    /\ tasks[t].pc = "done"
    /\ tasks[t].op = op

\* the reference stored under the call's key when the call was made
Pre(t) == snap.entries[tasks[t].key]
\* ... and now
Cur(t) == entries[tasks[t].key]

ManagerUnchanged ==
    /\ entries = snap.entries
    /\ heap = snap.heap
    /\ timers = snap.timers

PendingTimersOf(e) ==
    {tm \in TimerIds : timers[tm].entry = e /\ timers[tm].st = "pending"}

StateChangeSeen(e, state, reason) ==
    [cb |-> "OnStateChange", entry |-> e, state |-> state,
     reason |-> reason, observed |-> state]
BroadcastSeen(typ, e, state) ==
    [cb |-> "OnBroadcast", entry |-> e, typ |-> typ, observed |-> state]

\* C2: HandleSSA run alone creates a missing entry as non-local; an entry
\* that is then Prohibited becomes Allowed, its pending test timer is
\* stopped and its handle cleared, OnStateChange(entry, Allowed,
\* NetworkInitiated) is invoked exactly once and OnBroadcast never.
C2_HandleSSA ==
    \A t \in Tasks : Returned(t, "HandleSSA") =>
        LET pre == Pre(t)
            e == Cur(t)
            wasProhibited ==
                pre = 0 \/ snap.heap[pre].State = SSNStateProhibited
            h == IF pre = 0 THEN 0 ELSE snap.heap[pre].TestTimer
        IN /\ tasks[t].ret = "nil"
           /\ e # 0
           /\ (pre = 0 => /\ e = Len(snap.heap) + 1
                          /\ ~heap[e].IsLocal
                          /\ heap[e].PointCode = tasks[t].key[1]
                          /\ heap[e].SSN = tasks[t].key[2])
           /\ (pre # 0 => e = pre)
           /\ (wasProhibited =>
                 /\ heap[e].State = SSNStateAllowed
                 /\ heap[e].TestTimer = 0
                 /\ PendingTimersOf(e) = {}
                 /\ (h # 0 /\ snap.timers[h].st = "pending"
                        => timers[h].st = "stopped")
                 /\ tasks[t].cbs = << StateChangeSeen(e, SSNStateAllowed,
                                                     ReasonNetworkInitiated) >>)

\* HandleSSA has returned for an entry that was Prohibited with a pending
\* test timer
C2_Witness ==
    \E t \in Tasks :
        /\ Returned(t, "HandleSSA")
        /\ Pre(t) # 0
        /\ snap.heap[Pre(t)].State = SSNStateProhibited
        /\ snap.heap[Pre(t)].TestTimer # 0
        /\ snap.timers[snap.heap[Pre(t)].TestTimer].st = "pending"

\* C3: HandleSSP run alone on a remote entry that is Allowed: the state
\* becomes Prohibited, a timer it had is no longer pending, TestRetries is
\* 0, TestInterval is DefaultTestInterval, exactly one timer is pending for
\* the entry, set for TestInterval, and OnStateChange(entry, Prohibited,
\* NetworkInitiated) is invoked once.
C3_HandleSSP ==
    \A t \in Tasks :
        (/\ Returned(t, "HandleSSP")
         /\ Pre(t) # 0
         /\ ~snap.heap[Pre(t)].IsLocal
         /\ snap.heap[Pre(t)].State = SSNStateAllowed)
        => LET e == Cur(t)
           IN /\ e = Pre(t)
              /\ tasks[t].ret = "nil"
              /\ heap[e].State = SSNStateProhibited
              /\ heap[e].TestRetries = 0
              /\ heap[e].TestInterval = DefaultTestInterval
              /\ Len(timers) = Len(snap.timers) + 1
              /\ heap[e].TestTimer = Len(timers)
              /\ PendingTimersOf(e) = {heap[e].TestTimer}
              /\ timers[heap[e].TestTimer].interval = DefaultTestInterval
              /\ tasks[t].cbs = << StateChangeSeen(e, SSNStateProhibited,
                                                  ReasonNetworkInitiated) >>

\* HandleSSP has returned for a remote entry that was Allowed
C3_Witness ==
    \E t \in Tasks :
        /\ Returned(t, "HandleSSP")
        /\ Pre(t) # 0
        /\ ~snap.heap[Pre(t)].IsLocal
        /\ snap.heap[Pre(t)].State = SSNStateAllowed
        /\ PendingTimersOf(Cur(t)) # {}

\* C4: in an empty manager HandleSSP for an unknown key creates a remote
\* Prohibited entry, fires OnStateChange(_, Prohibited, NetworkInitiated)
\* and leaves an SST timer scheduled for the entry.
C4_SSPUnknownKey ==
    \A t \in Tasks :
        (/\ Returned(t, "HandleSSP")
         /\ \A k \in Keys : snap.entries[k] = 0)
        => LET e == Cur(t)
           IN /\ e # 0
              /\ ~heap[e].IsLocal
              /\ heap[e].State = SSNStateProhibited
              /\ tasks[t].cbs = << StateChangeSeen(e, SSNStateProhibited,
                                                  ReasonNetworkInitiated) >>
              /\ heap[e].TestTimer # 0
              /\ PendingTimersOf(e) = {heap[e].TestTimer}

\* C7: HandleSSA on an entry that is Allowed and HandleSSP on an entry that
\* is Prohibited change no entry (state, LastStateChange, timer, retries,
\* interval), no timer and not the registry, and invoke no callback.
C7_Idempotent ==
    \A t \in Tasks :
        (\/ /\ Returned(t, "HandleSSA")
            /\ Pre(t) # 0
            /\ snap.heap[Pre(t)].State = SSNStateAllowed
         \/ /\ Returned(t, "HandleSSP")
            /\ Pre(t) # 0
            /\ snap.heap[Pre(t)].State = SSNStateProhibited)
        => /\ ManagerUnchanged
           /\ tasks[t].cbs = << >>
           /\ tasks[t].ret = "nil"

\* HandleSSP has returned for an entry that was Prohibited with its test
\* timer pending
C7_Witness ==
    \E t \in Tasks :
        /\ Returned(t, "HandleSSP")
        /\ Pre(t) # 0
        /\ snap.heap[Pre(t)].State = SSNStateProhibited
        /\ snap.heap[Pre(t)].TestTimer # 0
        /\ snap.timers[snap.heap[Pre(t)].TestTimer].st = "pending"

\* C8: HandleUserInService and HandleUserOutOfService return an error when
\* the key has no entry (EntryNotFound) and when the entry is remote
\* (NotLocal), and only then; in the error cases nothing is created or
\* changed and no callback is invoked.
C8_UserErrors ==
    \A t \in Tasks :
        (\/ Returned(t, "HandleUserInService")
         \/ Returned(t, "HandleUserOutOfService"))
        => LET pre == Pre(t)
           IN /\ tasks[t].ret =
                   (IF pre = 0 THEN "EntryNotFound"
                    ELSE IF ~snap.heap[pre].IsLocal THEN "NotLocal"
                    ELSE "nil")
              /\ (tasks[t].ret # "nil" => /\ ManagerUnchanged
                                          /\ tasks[t].cbs = << >>)

\* a user request has returned NotLocal for a remote entry, while another
\* entry is registered
C8_Witness ==
    \E t \in Tasks :
        /\ Returned(t, "HandleUserOutOfService")
        /\ tasks[t].ret = "NotLocal"
        /\ snap.heap[Pre(t)].State = SSNStateAllowed
        /\ \E k \in Keys : k # tasks[t].key /\ entries[k] # 0

\* C9: on a local entry HandleUserInService from Prohibited sets Allowed and
\* then invokes OnStateChange(entry, Allowed, UserInitiated), then
\* OnBroadcast(SSA, entry); HandleUserOutOfService from Allowed sets
\* Prohibited and then invokes OnStateChange(entry, Prohibited,
\* UserInitiated), then OnBroadcast(SSP, entry); each once, in that order;
\* in the target state already, the call changes and invokes nothing.
C9_UserTransitions ==
    \A t \in Tasks :
        LET pre == Pre(t)
            transition(from, to, bc) ==
                IF snap.heap[pre].State = from
                THEN /\ heap[pre].State = to
                     /\ heap[pre].TestTimer = 0
                     /\ entries = snap.entries
                     /\ timers = snap.timers
                     /\ \A e \in 1..Len(heap) :
                            e # pre => heap[e] = snap.heap[e]
                     /\ tasks[t].cbs =
                          << StateChangeSeen(pre, to, ReasonUserInitiated),
                             BroadcastSeen(bc, pre, to) >>
                ELSE /\ ManagerUnchanged
                     /\ tasks[t].cbs = << >>
        IN /\ (Returned(t, "HandleUserInService") /\ pre # 0
                  /\ snap.heap[pre].IsLocal)
              => /\ transition(SSNStateProhibited, SSNStateAllowed,
                               BroadcastSSA)
                 /\ Cur(t) = pre /\ tasks[t].ret = "nil"
           /\ (Returned(t, "HandleUserOutOfService") /\ pre # 0
                  /\ snap.heap[pre].IsLocal)
              => /\ transition(SSNStateAllowed, SSNStateProhibited,
                               BroadcastSSP)
                 /\ Cur(t) = pre /\ tasks[t].ret = "nil"

\* HandleUserOutOfService has returned for a local entry that was Allowed
C9_Witness ==
    \E t \in Tasks :
        /\ Returned(t, "HandleUserOutOfService")
        /\ Pre(t) # 0
        /\ snap.heap[Pre(t)].IsLocal
        /\ snap.heap[Pre(t)].State = SSNStateAllowed
        /\ Len(tasks[t].cbs) = 2

\* C10: HandleSST builds the SSA response for (pc, ssn) exactly when the
\* entry is local and Allowed; it returns no error, invokes no callback,
\* starts no timer and changes no existing entry; an unknown key is
\* registered as remote and Prohibited.
C10_HandleSST ==
    \A t \in Tasks : Returned(t, "HandleSST") =>
        LET pre == Pre(t)
            k == tasks[t].key
            responds == pre # 0 /\ snap.heap[pre].IsLocal
                        /\ snap.heap[pre].State = SSNStateAllowed
        IN /\ tasks[t].ret = "nil"
           /\ tasks[t].cbs = << >>
           /\ timers = snap.timers
           /\ \A e \in 1..Len(snap.heap) : heap[e] = snap.heap[e]
           /\ tasks[t].out =
                (IF responds
                 THEN << << SCMGTypeSSA, k[2], k[1] % 256, k[1] \div 256, 0 >> >>
                 ELSE << >>)
           /\ (pre # 0 => ManagerUnchanged)
           /\ (pre = 0 => /\ Len(heap) = Len(snap.heap) + 1
                          /\ Cur(t) = Len(heap)
                          /\ ~heap[Cur(t)].IsLocal
                          /\ heap[Cur(t)].State = SSNStateProhibited
                          /\ heap[Cur(t)].TestTimer = 0
                          /\ \A k2 \in Keys \ {k} :
                                entries[k2] = snap.entries[k2])

\* HandleSST has returned the SSA response for a local Allowed entry
C10_Witness ==
    \E t \in Tasks :
        /\ Returned(t, "HandleSST")
        /\ Pre(t) # 0
        /\ snap.heap[Pre(t)].IsLocal
        /\ snap.heap[Pre(t)].State = SSNStateAllowed
        /\ tasks[t].out # << >>


(* ================== properties of the SST loop and locks =============== *)
Threads == 1..(NTasks + Len(timers))

\* the entry whose mutex the next step of thread th asks for (0: none)
WaitsFor(th) ==
    IF th \in Tasks
    THEN LET T == tasks[th]
         IN IF T.pc \in {"check", "mark", "stop", "prohibited"} THEN T.entry
            ELSE IF T.pc = "start" /\ ~heap[T.entry].IsLocal THEN T.entry
            ELSE IF T.pc = "allowed" /\ SSTReadsState(heap[T.entry])
                 THEN T.entry
            ELSE 0
    ELSE LET tm == th - NTasks
         IN IF timers[tm].st \in {"fired", "locked"} THEN timers[tm].entry
            ELSE 0

\* th asks for a mutex whose holder itself asks for that mutex: the holder
\* never releases it, and th never gets it
BlockedForever(th) ==
    LET e == WaitsFor(th)
    IN /\ e # 0
       /\ heap[e].mutex # 0
       /\ WaitsFor(heap[e].mutex) = e

\* C1: no call and no timer callback is ever blocked forever on a lock.
C1_NoThreadBlockedForever == \A th \in Threads : ~BlockedForever(th)

TimersOf(e) == {tm \in TimerIds : timers[tm].entry = e}

\* the SST loop of e has been started and has come to rest: no timer of e
\* is pending and no callback of e can still act
LoopAtRest(e) ==
    /\ TimersOf(e) # {}
    /\ \A tm \in TimersOf(e) :
          \/ timers[tm].st \in {"stopped", "returned"}
          \/ BlockedForever(TimerThread(tm))

\* C5: the SST loop of a remote entry that stays Prohibited sends one SST
\* at every timer fire, counting them in TestRetries, until MaxTestRetries
\* have been sent: when the loop is at rest exactly MaxTestRetries SSTs
\* have been sent, and the intervals never exceeded MaxTestInterval.
C5_SSTLoopRunsToMaxRetries ==
    \A e \in 1..Len(heap) :
        (/\ ~heap[e].IsLocal
         /\ heap[e].State = SSNStateProhibited
         /\ LoopAtRest(e))
        => /\ sstSent[e] = heap[e].MaxTestRetries
           /\ heap[e].TestRetries = sstSent[e]
           /\ \A tm \in TimersOf(e) :
                 timers[tm].interval <= MaxTestInterval

\* C6: HandleSSA for a remote entry whose first SST callback has run and
\* whose second has not returns, and then the entry is Allowed with no
\* timer, OnStateChange(_, Allowed, NetworkInitiated) was invoked and one
\* SST was sent in total.
C6_SSAStopsSSTLoop ==
    \A t \in Tasks :
        LET T == tasks[t]
            e == T.entry
        IN (/\ T.fn = "HandleSSA"
            /\ e # 0
            /\ ~heap[e].IsLocal
            /\ Cardinality({tm \in TimersOf(e) :
                              timers[tm].st \in {"locked", "returned"}}) = 1)
           => /\ ~BlockedForever(t)
              /\ (T.pc = "done" /\ T.cbs # << >> =>
                    /\ heap[e].State = SSNStateAllowed
                    /\ heap[e].TestTimer = 0
                    /\ PendingTimersOf(e) = {}
                    /\ T.cbs = << StateChangeSeen(e, SSNStateAllowed,
                                                 ReasonNetworkInitiated) >>
                    /\ sstSent[e] = 1)


(* ============================= codecs ================================== *)
\* The codecs are pure functions: a behaviour takes one input, encodes it
\* and decodes the result, or decodes a frame received from the network.

\* the inputs of the SCMG codec
SCMGSSNs == {0, 8, 255}
SCMGPCs == {0, 10, 4660, 65535}
SCMGSMIs == {0, 3}
SCMGSCLs == {0, 5}

\* the inputs of NewUDT: the lengths of the addresses and of the data, the
\* protocol class and the return-on-error option
AddrLens == {1, 11, 12, 13, 20, 250, 255}
DataLens == {1, 3, 255}
Classes == {0, 1, 2}

\* the address or data of L octets whose first octet is first + 1
Octets(L, first) == [i \in 1..L |-> (first + i) % 256]
CalledOf(L) == Octets(L, 16)
CallingOf(L) == Octets(L, 96)
DataOf(L) == IF L = 3 THEN <<170, 187, 204>> ELSE Octets(L, 200)

\* frames from the network.  The first octet of each is drawn from:
FrameTypes == {0, 1, 8, 9, 10, 17, 18, 20, 255}

\* the layout MarshalTo writes: type, protocol class, three pointers, then
\* Called, Calling and Data one after the other
ClassFrame(typ, pcOctet) ==
    <<typ, pcOctet, 3, 14, 25, 11>> \o CalledOf(11) \o <<11>> \o CallingOf(11)
        \o <<3>> \o DataOf(3)

\* the layout UnmarshalBinary reads: type, three pointers, then Called,
\* Calling and Data one after the other
PlainFrame(typ) ==
    <<typ, 3, 4, 5, 2, 193, 194, 2, 195, 196, 1, 221>>

\* as PlainFrame, with two octets between Called and Calling that no
\* pointer refers to
GapFrame(typ) ==
    <<typ, 3, 6, 7, 1, 193, 1, 238, 1, 194, 1, 221>>

Prefixes(b) == {SubSeq(b, 1, n) : n \in 0..Len(b)}

Frames ==
    UNION {Prefixes(ClassFrame(t, c)) \cup Prefixes(PlainFrame(t))
               \cup Prefixes(GapFrame(t)) :
           t \in FrameTypes, c \in {0, 1, 2, 129, 130}}

\* encodings of an SSC and of an SSA, whole and cut short
SCMGFrames ==
    Prefixes(SCMGMarshalBinary(NewSCMG(SCMGTypeSSC, 8, 4660, 0, 5)))
        \cup Prefixes(SCMGMarshalBinary(NewSCMG(SCMGTypeSSA, 7, 10, 1, 0)))

NoResult == [none |-> TRUE]

CodecCall(op, in) ==
    [op |-> op, pc |-> "new", in |-> in, enc |-> NoResult, dec |-> NoResult,
     msg |-> NoResult]

CodecInputs ==
    {CodecCall("SCMG", NewSCMG(typ, assn, apc, smi, scl)) :
        typ \in SCMGTypes, assn \in SCMGSSNs, apc \in SCMGPCs,
        smi \in SCMGSMIs, scl \in SCMGSCLs}
    \cup {CodecCall("UDT", [pcls |-> c, retOnErr |-> r, cdpa |-> CalledOf(Lcd),
                            cgpa |-> CallingOf(Lcg), data |-> DataOf(Ld)]) :
        c \in Classes, r \in BOOLEAN, Lcd \in AddrLens, Lcg \in AddrLens,
        Ld \in DataLens}
    \cup {CodecCall("Frame", b) : b \in Frames}
    \cup {CodecCall("SCMGFrame", b) : b \in SCMGFrames}

CodecInit ==
    /\ NewManager
    /\ codec \in CodecInputs

\* b, err := NewSCMG(...).MarshalBinary()
CallSCMGMarshalBinary ==
    /\ codec.op = "SCMG" /\ codec.pc = "new"
    /\ codec' = [codec EXCEPT !.pc = "encoded",
                              !.enc = Returns("nil", SCMGMarshalBinary(codec.in))]
    /\ UNCHANGED <<entries, heap, timers, tasks, now, sstSent, ncalls, snap>>

\* s, err := ParseSCMG(b)
CallParseSCMG ==
    /\ codec.op = "SCMG" /\ codec.pc = "encoded"
    /\ codec' = [codec EXCEPT !.pc = "decoded",
                              !.dec = ParseSCMG(codec.enc.b)]
    /\ UNCHANGED <<entries, heap, timers, tasks, now, sstSent, ncalls, snap>>

\* err := (&SCMG{}).UnmarshalBinary(b), for octets b
CallSCMGUnmarshalBinary ==
    /\ codec.op = "SCMGFrame" /\ codec.pc = "new"
    /\ codec' = [codec EXCEPT !.pc = "decoded", !.dec = SCMGUnmarshalBinary(codec.in)]
    /\ UNCHANGED <<entries, heap, timers, tasks, now, sstSent, ncalls, snap>>

\* s, err := ParseSCMG(b), for octets b
CallParseSCMGFrame ==
    /\ codec.op = "SCMGFrame" /\ codec.pc = "new"
    /\ codec' = [codec EXCEPT !.pc = "parsed", !.msg = ParseSCMG(codec.in)]
    /\ UNCHANGED <<entries, heap, timers, tasks, now, sstSent, ncalls, snap>>

\* the UDT that NewUDT builds from the input of the codec call
BuiltUDT == NewUDT(codec.in.pcls, codec.in.retOnErr, codec.in.cdpa,
                   codec.in.cgpa, codec.in.data)

\* b, err := NewUDT(...).MarshalBinary()
CallUDTMarshalBinary ==
    /\ codec.op = "UDT" /\ codec.pc = "new"
    /\ codec' = [codec EXCEPT !.pc = "encoded", !.enc = UDTMarshalBinary(BuiltUDT)]
    /\ UNCHANGED <<entries, heap, timers, tasks, now, sstSent, ncalls, snap>>

\* err := (&UDT{}).UnmarshalBinary(b), for the b that MarshalBinary returned
CallUDTUnmarshalBinary ==
    /\ codec.op = "UDT" /\ codec.pc = "encoded"
    /\ ~codec.enc.panic /\ codec.enc.err = "nil"
    /\ codec' = [codec EXCEPT !.pc = "decoded",
                              !.dec = UDTUnmarshalBinary(codec.enc.b)]
    /\ UNCHANGED <<entries, heap, timers, tasks, now, sstSent, ncalls, snap>>

\* err := (&UDT{}).UnmarshalBinary(b), for a frame b
CallFrameUnmarshalBinary ==
    /\ codec.op = "Frame" /\ codec.pc = "new"
    /\ codec' = [codec EXCEPT !.pc = "decoded", !.dec = UDTUnmarshalBinary(codec.in)]
    /\ UNCHANGED <<entries, heap, timers, tasks, now, sstSent, ncalls, snap>>

\* m, err := ParseMessage(b), for a frame b
CallParseMessage ==
    /\ codec.op = "Frame" /\ codec.pc = "new"
    /\ \E xerr \in XUDTErrors :
          codec' = [codec EXCEPT !.pc = "parsed", !.msg = ParseMessage(codec.in, xerr)]
    /\ UNCHANGED <<entries, heap, timers, tasks, now, sstSent, ncalls, snap>>

CodecNext ==
    \/ CallSCMGMarshalBinary
    \/ CallParseSCMG
    \/ CallSCMGUnmarshalBinary
    \/ CallParseSCMGFrame
    \/ CallUDTMarshalBinary
    \/ CallUDTUnmarshalBinary
    \/ CallFrameUnmarshalBinary
    \/ CallParseMessage

CodecSpec == CodecInit /\ [][CodecNext]_vars

(* ==================== registry and SCMG dispatch ======================= *)
\* C11: AddEntry for a key that has an entry returns that entry and leaves
\* it and the registry as they were: the object stored under a key is never
\* replaced.
C11_AddEntryKeepsExisting ==
    \A t \in Tasks :
        (Returned(t, "AddEntry") /\ Pre(t) # 0)
        => /\ tasks[t].entry = Pre(t)
           /\ Cur(t) = Pre(t)
           /\ ManagerUnchanged

\* under SeqSpec: task t has returned from a call of ProcessSCMGMessage
ReturnedSCMG(t) ==
    /\ snap # NoSnap
    /\ tasks[t].pc = "done"
    /\ tasks[t].via = "ProcessSCMGMessage"

\* C12: ProcessSCMGMessage runs HandleSSA for type SSA, HandleSSP for SSP
\* and HandleSST for SST, on (AffectedPC, AffectedSSN); for every other
\* type it returns no error, creates no entry, changes no entry or timer
\* and invokes no callback.
C12_ProcessSCMGMessage ==
    \A t \in Tasks : ReturnedSCMG(t) =>
        LET T == tasks[t]
            m == T.scmg
        IN /\ T.ret = "nil"
           /\ (m.Type = SCMGTypeSSA => T.op = "HandleSSA")
           /\ (m.Type = SCMGTypeSSP => T.op = "HandleSSP")
           /\ (m.Type = SCMGTypeSST => T.op = "HandleSST")
           /\ (m.Type \in {SCMGTypeSSA, SCMGTypeSSP, SCMGTypeSST} =>
                 /\ T.key = <<m.AffectedPC, m.AffectedSSN>>
                 /\ T.entry = entries[<<m.AffectedPC, m.AffectedSSN>>]
                 /\ T.entry # 0
                 /\ heap[T.entry].PointCode = m.AffectedPC
                 /\ heap[T.entry].SSN = m.AffectedSSN)
           /\ (m.Type \notin {SCMGTypeSSA, SCMGTypeSSP, SCMGTypeSST} =>
                 /\ T.op = "ProcessSCMGMessage"
                 /\ ManagerUnchanged
                 /\ T.cbs = << >>
                 /\ T.out = << >>)

\* ProcessSCMGMessage has returned from an SSP message that made an Allowed
\* entry Prohibited
C12_Witness ==
    \E t \in Tasks :
        /\ ReturnedSCMG(t)
        /\ tasks[t].scmg.Type = SCMGTypeSSP
        /\ tasks[t].cbs # << >>


(* ============================ SCMG codec =============================== *)
\* an SCMG carries a congestion level only when its type is SSC
WellFormedSCMG(v) == v.Type # SCMGTypeSSC => v.SCCPCongestionLevel = 0

\* C13: ParseSCMG(MarshalBinary(v)) succeeds and returns v with the
\* congestion level kept for SSC and zero for every other type, so it
\* returns v itself when v is well formed; the encoding has 6 octets for
\* SSC (the sixth is the congestion level) and 5 otherwise, with the SSN in
\* octet 1, the point code little-endian in octets 2..3 and the multiplicity
\* indicator in octet 4.
C13_SCMGRoundTrip ==
    (codec.op = "SCMG" /\ codec.pc = "decoded") =>
        LET v == codec.in
            b == codec.enc.b
            r == codec.dec
        IN /\ r.err = "nil"
           /\ r.s = [v EXCEPT !.SCCPCongestionLevel =
                         IF v.Type = SCMGTypeSSC THEN v.SCCPCongestionLevel ELSE 0]
           /\ (WellFormedSCMG(v) => r.s = v)
           /\ Len(b) = IF v.Type = SCMGTypeSSC THEN 6 ELSE 5
           /\ \A i \in 1..Len(b) : b[i] \in 0..255
           /\ b[1] = v.Type
           /\ b[2] = v.AffectedSSN
           /\ b[3] + 256 * b[4] = v.AffectedPC
           /\ b[5] = v.SubsystemMultiplicityIndicator
           /\ (v.Type = SCMGTypeSSC => b[6] = v.SCCPCongestionLevel)

\* an SSC with point code 0x1234 and congestion level 5 was encoded and
\* decoded
C13_Witness ==
    /\ codec.op = "SCMG" /\ codec.pc = "decoded"
    /\ codec.in.Type = SCMGTypeSSC
    /\ codec.in.AffectedPC = 4660
    /\ codec.in.SCCPCongestionLevel = 5
    /\ codec.enc.b = <<6, 8, 52, 18, 0, 5>>


(* ============================= UDT codec =============================== *)
\* the octet buf[i] of an encoded frame (indexes start at 0), -1 outside it
BufAt(b, i) == IF 0 <= i /\ i < Len(b) THEN b[i + 1] ELSE -1

\* MarshalBinary returned a buffer and no error
Encoded == /\ codec.op = "UDT" /\ codec.pc \in {"encoded", "decoded"}
           /\ ~codec.enc.panic /\ codec.enc.err = "nil"

\* C14: for a UDT built by NewUDT with protocol class 0 or 1,
\* UnmarshalBinary(MarshalBinary(u)) returns no error and a UDT with the
\* protocol class, Called, Calling and Data of u.
C14_UDTRoundTrip ==
    (codec.op = "UDT" /\ codec.pc = "decoded" /\ codec.in.pcls \in {0, 1}) =>
        /\ codec.dec.err = "nil"
        /\ codec.dec.u.ProtocolClass =
               NewProtocolClass(codec.in.pcls, codec.in.retOnErr)
        /\ codec.dec.u.CalledPartyAddress = codec.in.cdpa
        /\ codec.dec.u.CallingPartyAddress = codec.in.cgpa
        /\ codec.dec.u.Data = codec.in.data

\* C15: MarshalBinary of a UDT built by NewUDT, for all lengths of Called,
\* Calling and Data, yields a frame with buf[2] = 3 in which buf[2 + buf[2]],
\* buf[3 + buf[3]] and buf[4 + buf[4]] are the length octets of Called,
\* Calling and Data.
C15_PointerInvariants ==
    (codec.op = "UDT" /\ codec.pc = "encoded") =>
        LET b == codec.enc.b
        IN /\ ~codec.enc.panic
           /\ codec.enc.err = "nil"
           /\ BufAt(b, 2) = 3
           /\ BufAt(b, 2 + BufAt(b, 2)) = Len(codec.in.cdpa)
           /\ BufAt(b, 3 + BufAt(b, 3)) = Len(codec.in.cgpa)
           /\ BufAt(b, 4 + BufAt(b, 4)) = Len(codec.in.data)

\* C16 as stated: in an encoded UDT ptr2 = ptr1 + marshal_len(Called) and
\* ptr3 = ptr2 + marshal_len(Calling); 11-octet addresses give 3, 15, 27.
C16_PointersAsStated ==
    Encoded =>
        LET b == codec.enc.b
        IN /\ BufAt(b, 3) = BufAt(b, 2) + ParamMarshalLen(codec.in.cdpa)
           /\ BufAt(b, 4) = BufAt(b, 3) + ParamMarshalLen(codec.in.cgpa)
           /\ (Len(codec.in.cdpa) = 11 /\ Len(codec.in.cgpa) = 11 =>
                 <<BufAt(b, 2), BufAt(b, 3), BufAt(b, 4)>> = <<3, 15, 27>>)

\* C16: in a UDT that MarshalBinary encodes ptr1 = 3,
\* ptr2 = ptr1 + marshal_len(Called) - 1 and
\* ptr3 = ptr2 + marshal_len(Calling) - 1, where marshal_len counts the
\* length octet; 11-octet addresses give buf[2] = 3, buf[3] = 14,
\* buf[4] = 25.
C16_Pointers ==
    Encoded =>
        LET b == codec.enc.b
        IN /\ BufAt(b, 2) = 3
           /\ BufAt(b, 3) = BufAt(b, 2) + ParamMarshalLen(codec.in.cdpa) - 1
           /\ BufAt(b, 4) = BufAt(b, 3) + ParamMarshalLen(codec.in.cgpa) - 1
           /\ (Len(codec.in.cdpa) = 11 /\ Len(codec.in.cgpa) = 11 =>
                 <<BufAt(b, 2), BufAt(b, 3), BufAt(b, 4)>> = <<3, 14, 25>>)

\* a UDT with 11-octet addresses, class 1 and return on error was encoded
C16_Witness ==
    /\ Encoded
    /\ codec.pc = "encoded"
    /\ Len(codec.in.cdpa) = 11 /\ Len(codec.in.cgpa) = 11
    /\ codec.in.data = <<170, 187, 204>>
    /\ SubSeq(codec.enc.b, 1, 6) = <<9, 129, 3, 14, 25, 11>>
    /\ BufAt(codec.enc.b, 17) = 11
    /\ SubSeq(codec.enc.b, 30, 33) = <<3, 170, 187, 204>>

\* a frame in the layout MarshalTo writes, complete, with type UDT and a
\* protocol class other than 0 and 1
InvalidClassFrame(b) ==
    /\ Len(b) >= 2
    /\ b = ClassFrame(MsgTypeUDT, b[2])
    /\ b[2] % 16 \notin {0, 1}

\* C17: UnmarshalBinary and ParseMessage fail with InvalidProtocolClass,
\* and ParseMessage returns no message, for a UDT frame whose protocol
\* class is not 0 or 1.
C17_InvalidProtocolClass ==
    (codec.op = "Frame" /\ InvalidClassFrame(codec.in)) =>
        /\ (codec.pc = "decoded" => codec.dec.err = "InvalidProtocolClass")
        /\ (codec.pc = "parsed" => /\ codec.msg.err = "InvalidProtocolClass"
                                   /\ codec.msg.m = NilMessage)

\* the parameter whose length octet is buf[off]; <<-1>> if it does not lie
\* within the frame
ParamAt(b, off) ==
    IF off < Len(b) /\ off + 1 + b[off + 1] <= Len(b)
    THEN SubSeq(b, off + 2, off + 1 + b[off + 1])
    ELSE <<-1>>

\* C18: UnmarshalBinary returns nil or ErrUnexpectedEOF; when it returns
\* nil, Called, Calling and Data are the parameters at the offsets
\* i + buf[i] of the three pointer octets i it has read (1, 2 and 3).
C18_DecodeDereferencesPointers ==
    (codec.op = "Frame" /\ codec.pc = "decoded") =>
        LET b == codec.in
            u == codec.dec.u
        IN /\ codec.dec.err \in {"nil", "ErrUnexpectedEOF"}
           /\ (codec.dec.err = "nil" =>
                 /\ u.CalledPartyAddress = ParamAt(b, 1 + BufAt(b, 1))
                 /\ u.CallingPartyAddress = ParamAt(b, 2 + BufAt(b, 2))
                 /\ u.Data = ParamAt(b, 3 + BufAt(b, 3)))

\* C19: MarshalBinary of a UDT built by NewUDT does not panic, returns no
\* error and returns 5 + (1 + L_cd) + (1 + L_cg) + (1 + L_d) octets.
C19_MarshalBinaryInBounds ==
    (codec.op = "UDT" /\ codec.pc = "encoded") =>
        /\ ~codec.enc.panic
        /\ codec.enc.err = "nil"
        /\ Len(codec.enc.b) = 5 + (1 + Len(codec.in.cdpa))
                                + (1 + Len(codec.in.cgpa))
                                + (1 + Len(codec.in.data))

(* ========================= message dispatcher ========================== *)
\* C20: ParseMessage returns ErrUnexpectedEOF and no message for an empty
\* buffer, UnsupportedTypeError(b[0]) and no message for a first octet other
\* than 9 and 17, and a message only if its MessageType() is b[0].
C20_ParseMessage ==
    (codec.op = "Frame" /\ codec.pc = "parsed") =>
        LET b == codec.in
            r == codec.msg
        IN /\ (Len(b) = 0 => r.err = "ErrUnexpectedEOF" /\ r.m = NilMessage)
           /\ (Len(b) > 0 /\ b[1] \notin {MsgTypeUDT, MsgTypeXUDT} =>
                 /\ r.err = "UnsupportedTypeError"
                 /\ r.typ = b[1]
                 /\ r.m = NilMessage)
           /\ (r.m # NilMessage => /\ r.err = "nil"
                                   /\ Len(b) > 0
                                   /\ MessageType(r.m) = b[1])
           /\ (r.m = NilMessage => r.err # "nil")

\* ParseMessage has returned a UDT for a frame whose first octet is 9
C20_Witness ==
    /\ codec.op = "Frame" /\ codec.pc = "parsed"
    /\ codec.in = PlainFrame(MsgTypeUDT)
    /\ codec.msg.err = "nil"
    /\ codec.msg.m.kind = "UDT"
    /\ codec.msg.m.u.Data = <<221>>


(* ===================== callbacks, races and timers ===================== *)
\* task t is inside OnStateChange or OnBroadcast
InCallback(t) == tasks[t].pc \in {"statechange", "broadcast"}

Entries == 1..Len(heap)

\* C21: while a task is inside OnStateChange or OnBroadcast it holds the
\* lock of no entry, neither as the writer nor as a reader.
C21_CallbacksOutsideLock ==
    \A t \in Tasks : InCallback(t) =>
        \A e \in Entries : heap[e].mutex # t /\ t \notin heap[e].readers

\* HandleUserOutOfService has marked a local entry Prohibited, has stopped
\* its test and is inside OnBroadcast
C21_Witness ==
    \E t \in Tasks :
        /\ tasks[t].op = "HandleUserOutOfService"
        /\ tasks[t].pc = "broadcast"
        /\ heap[tasks[t].entry].State = SSNStateProhibited
        /\ tasks[t].cbs # << >>


\* C22: two tasks are never inside a callback for the same entry at the
\* same time.
C22_CallbacksSerialized ==
    \A t1, t2 \in Tasks :
        (t1 # t2 /\ InCallback(t1) /\ InCallback(t2))
        => tasks[t1].entry # tasks[t2].entry


\* C23: an entry has at most one pending test timer, and an entry with a
\* pending test timer is the entry the registry stores under its key.
C23_OneTimerPerRegisteredEntry ==
    \A e \in Entries :
        /\ Cardinality(PendingTimersOf(e)) <= 1
        /\ (PendingTimersOf(e) # {} =>
               entries[getKey(heap[e].PointCode, heap[e].SSN)] = e)


\* no call is under way and no timer callback is waiting or running
Quiescent ==
    /\ \A t \in Tasks : tasks[t].pc \in {"idle", "done"}
    /\ \A tm \in TimerIds : timers[tm].st \notin {"fired", "locked"}

\* C24: once every call has returned, an entry whose TestTimer is set is
\* Prohibited and has TestRetries < MaxTestRetries.
C24_TimerImpliesProhibited ==
    Quiescent =>
        \A e \in Entries :
            heap[e].TestTimer # 0 =>
                /\ heap[e].State = SSNStateProhibited
                /\ heap[e].TestRetries < heap[e].MaxTestRetries


\* C25: a local entry has no test timer, no timer was ever created for it,
\* its TestRetries and TestInterval are as AddEntry set them and no SST was
\* sent for it.
C25_LocalEntriesNeverTested ==
    \A e \in Entries :
        heap[e].IsLocal =>
            /\ heap[e].TestTimer = 0
            /\ heap[e].TestRetries = 0
            /\ heap[e].TestInterval = DefaultTestInterval
            /\ \A tm \in TimerIds : timers[tm].entry # e
            /\ sstSent[e] = 0

\* HandleSSP has marked a local entry Prohibited and has returned from
\* startSST
C25_Witness ==
    \E t \in Tasks :
        /\ tasks[t].op = "HandleSSP"
        /\ tasks[t].pc = "statechange"
        /\ heap[tasks[t].entry].IsLocal
        /\ heap[tasks[t].entry].State = SSNStateProhibited


\* C26: a timer callback that holds the lock of an entry that is Allowed
\* is not blocked: its call of entry.IsAllowed() is granted the read lock,
\* so that it can return and release the entry lock.
C26_LateCallbackReturns ==
    \A tm \in TimerIds :
        (timers[tm].st = "locked" /\ IsAllowed(heap[timers[tm].entry]))
        => CanRLock(timers[tm].entry)


\* the tasks that are inside a call or have not yet left it
Active == {t \in Tasks : tasks[t].pc # "idle"}

\* every call made so far is one of ops for the key k and is still with its
\* task: no other call was ever made
OnlyCalls(ops, k) ==
    /\ ncalls = Cardinality(Active)
    /\ \A t \in Active :
          /\ tasks[t].via \in ops
          /\ tasks[t].op \in ops
          /\ tasks[t].key = k

\* C27: when the only calls ever made are HandleSSA and HandleSST for one
\* unknown key, run concurrently, and all of them have returned, one of
\* them a HandleSSA, then the registry stores an Allowed entry under the
\* key.
C27_ConcurrentAutoRegistration ==
    \A k \in Keys :
        (/\ OnlyCalls({"HandleSSA", "HandleSST"}, k)
         /\ \A t \in Active : tasks[t].pc = "done"
         /\ \E t \in Active : tasks[t].op = "HandleSSA")
        => /\ entries[k] # 0
           /\ heap[entries[k]].State = SSNStateAllowed

\* the number of invocations OnStateChange(e, state, _) made by the calls
\* that are with their tasks
StateChangeCount(e, state) ==
    Cardinality({c \in UNION {{<<t, i>> : i \in DOMAIN tasks[t].cbs} : t \in Tasks} :
                    /\ tasks[c[1]].cbs[c[2]].cb = "OnStateChange"
                    /\ tasks[c[1]].cbs[c[2]].entry = e
                    /\ tasks[c[1]].cbs[c[2]].state = state})

\* C28: when the only calls ever made are concurrent HandleSSA calls for
\* one key, each entry, which changes from Prohibited to Allowed once, is
\* reported by at most one OnStateChange(entry, Allowed, _).
C28_OneCallbackPerTransition ==
    \A k \in Keys :
        OnlyCalls({"HandleSSA"}, k) =>
            \A e \in Entries : StateChangeCount(e, SSNStateAllowed) <= 1

====
